---- MODULE Spec2Model ----
(***************************************************************************)
(* Model of src/vs/workbench/api/node/extHostQuickOpen.ts: the extension   *)
(* host side of the quick-input protocol.                                  *)
(*                                                                         *)
(* JavaScript values are modelled by TLA+ values of the matching kind:     *)
(* booleans, strings, arrays as sequences, object literals as functions    *)
(* from key to value.  `undefined` is the string Undef and `null` the      *)
(* string Null.  Objects handed in by the caller (buttons, pick items) are *)
(* held by reference, as in the source: a reference is a string naming an  *)
(* entry of ButtonObjects / ItemObjects.  A Map<number, T> is a function   *)
(* whose domain is the set of keys present; array index i of the source is *)
(* index i + 1 of the sequence.                                            *)
(***************************************************************************)
EXTENDS Integers, Sequences, FiniteSets, TLC

\* ---- bounds of the exploration ----------------------------------------

\* Number of sessions (ExtHostQuickInput objects) that are ever created.
MaxSessions == 2

\* Number of showQuickPick and showInput invocations in one behaviour.
MaxPicks == 2

\* Number of API calls and inbound protocol events in one behaviour.
MaxSteps == 5

\* ---- JavaScript helpers -----------------------------------------------

Undef == "undefined"
Null == "null"

\* `value === undefined`, for a value of any type.
IsUndefined(value) == ToString(value) = ToString(Undef)

\* Map.prototype.get
MapGet(map, key) == IF key \in DOMAIN map THEN map[key] ELSE Undef

\* The Map built by `map.clear(); array.forEach((x, i) => map.set(i, x))`,
\* starting from the entries `map` holds after the clear.
MapSetAll(map, array) ==
    [i \in DOMAIN map \cup {j - 1 : j \in DOMAIN array} |->
        IF i + 1 \in DOMAIN array THEN array[i + 1] ELSE map[i]]

\* Map.prototype.clear
MapClear_Keep(map) == map

MapClear(map) == <<>>

\* handles.map(handle => map.get(handle))
MapHandles(handles, map) == [n \in DOMAIN handles |-> MapGet(map, handles[n])]

\* ---- caller objects ----------------------------------------------------

\* QuickInputButton objects Extensions pass in, by reference.  iconPath is a
\* string path, a URI, a { light, dark } pair or a ThemeIcon.
ButtonObjects ==
    [b1 |-> [iconPath |-> [is |-> "string", path |-> "/one.svg"], tooltip |-> "one"],
     b2 |-> [iconPath |-> [is |-> "pair",
                           light |-> [is |-> "string", path |-> "/l.svg"],
                           dark  |-> [is |-> "URI", scheme |-> "file", path |-> "/d.svg"]],
             tooltip |-> "two"],
     b3 |-> [iconPath |-> [is |-> "ThemeIcon", id |-> "folder"], tooltip |-> Undef]]

\* QuickPickItem objects, by reference.  `picked` is true, false or undefined
\* and is written as a string.
ItemObjects ==
    [itemA |-> [label |-> "a", description |-> "da", detail |-> Undef, picked |-> "true"],
     itemB |-> [label |-> "b", description |-> Undef, detail |-> "xb", picked |-> Undef],
     itemC |-> [label |-> "c", description |-> Undef, detail |-> Undef, picked |-> Undef]]

NoIcon == [is |-> "undefined"]

\* ---- icon helpers (lines 389-417) --------------------------------------

getIconUri(iconPath) ==
    IF iconPath.is = "URI" THEN iconPath
    ELSE [is |-> "URI", scheme |-> "file", path |-> iconPath.path]

Truthy(iconPath) ==
    /\ iconPath.is # "undefined"
    /\ iconPath.is = "string" => iconPath.path # ""

getLightIconUri(iconPath) ==
    IF Truthy(iconPath) /\ iconPath.is # "ThemeIcon"
    THEN IF iconPath.is = "string" \/ iconPath.is = "URI"
         THEN getIconUri(iconPath)
         ELSE getIconUri(iconPath.light)
    ELSE NoIcon

getDarkIconUri(iconPath) ==
    IF /\ Truthy(iconPath)
       /\ iconPath.is # "ThemeIcon"
       /\ iconPath.is = "pair"
       /\ Truthy(iconPath.dark)
    THEN getIconUri(iconPath.dark)
    ELSE NoIcon

getIconUris(iconPath) ==
    LET light == getLightIconUri(iconPath)
        dark == getDarkIconUri(iconPath)
    IN [dark |-> IF Truthy(dark) THEN dark ELSE light, light |-> light]

\* buttons.map((button, i) => ({ iconPath, toolTip, handle: i }))
TransferButtons(buttons) ==
    [n \in DOMAIN buttons |->
        [iconPath |-> getIconUris(ButtonObjects[buttons[n]].iconPath),
         toolTip |-> ButtonObjects[buttons[n]].tooltip,
         handle |-> n - 1]]

\* items.map((item, i) => ({ label, description, handle: i, detail, picked }))
TransferItems(items) ==
    [n \in DOMAIN items |->
        [label |-> ItemObjects[items[n]].label,
         description |-> ItemObjects[items[n]].description,
         handle |-> n - 1,
         detail |-> ItemObjects[items[n]].detail,
         picked |-> ItemObjects[items[n]].picked]]

\* ---- state --------------------------------------------------------------

VARIABLES
    nextId,     \* ExtHostQuickInput._nextId (static counter)
    obj,        \* the session objects ever constructed, in construction order;
                \* a caller holds a session by its index in obj
    sessions,   \* ExtHostQuickOpen._sessions: session id -> index in obj
    out,        \* calls made on the proxy (_proxy.$...) by the last step, in order
    fired,      \* Emitter.fire calls made by the last step, in order
    remote,     \* per session id, the items and buttons lists the renderer was
                \* last sent (the lists its handles were issued for)
    batch,      \* per object, the setter calls made since the session was last
                \* seen shown, undisposed, with an empty buffer and no flush due
    lastOp,     \* the operation the last step performed
    steps,      \* number of API calls and inbound events so far
    onDidSelectItem,  \* ExtHostQuickOpen._onDidSelectItem: 0 when undefined, else
                \* the showQuickPick invocation whose closure it holds
    picks,      \* the showQuickPick invocations so far, each with its promises
    validateInput,  \* ExtHostQuickOpen._validateInput: 0 when not a function,
                \* else the showInput invocation whose validator it holds
    inputs      \* the showInput invocations so far, each with its promises

sessionVars == <<nextId, obj, sessions, remote, batch>>
pickVars == <<onDidSelectItem, picks>>
inputVars == <<validateInput, inputs>>
vars == <<nextId, obj, sessions, out, fired, remote, batch, lastOp, steps,
          onDidSelectItem, picks, validateInput, inputs>>

Objs == 1..MaxSessions
SessionIds == 1..MaxSessions

\* ---- ExtHostQuickInput (lines 209-387) ----------------------------------

NoSend(q) == [q |-> q, sent |-> <<>>]

\* private dispatchUpdate()
dispatchUpdate(q) ==
    [q |-> [q EXCEPT !.pendingUpdate = [id |-> q.id]],
     sent |-> <<[call |-> "$createOrUpdate", arg |-> q.pendingUpdate]>>]

\* for (const key of Object.keys(properties)) this._pendingUpdate[key] = ...
MergePending_Replace(pendingUpdate, properties) ==
    [key \in {"id"} \cup DOMAIN properties |->
        IF key \in DOMAIN properties
        THEN IF IsUndefined(properties[key]) THEN Null ELSE properties[key]
        ELSE pendingUpdate[key]]

MergePending(pendingUpdate, properties) ==
    [key \in DOMAIN pendingUpdate \cup DOMAIN properties |->
        IF key \in DOMAIN properties
        THEN IF IsUndefined(properties[key]) THEN Null ELSE properties[key]
        ELSE pendingUpdate[key]]

\* protected update(properties)
update_IgnoresDisposed(q, properties) ==
    LET m == [q EXCEPT !.pendingUpdate = MergePending(@, properties)]
    IN IF ~m.visible THEN NoSend(m)
       ELSE IF "visible" \in DOMAIN m.pendingUpdate
            THEN dispatchUpdate([m EXCEPT !.updateTimeout = FALSE])
            ELSE IF ~m.updateTimeout
                 THEN NoSend([m EXCEPT !.updateTimeout = TRUE])
                 ELSE NoSend(m)

\* as update, cancelling the scheduled flush when the session is not visible
update_CancelsWhenHidden(q, properties) ==
    IF q.disposed THEN NoSend(q)
    ELSE LET m == [q EXCEPT !.pendingUpdate = MergePending(@, properties)]
         IN IF ~m.visible THEN NoSend([m EXCEPT !.updateTimeout = FALSE])
            ELSE IF "visible" \in DOMAIN m.pendingUpdate
                 THEN dispatchUpdate([m EXCEPT !.updateTimeout = FALSE])
                 ELSE IF ~m.updateTimeout
                      THEN NoSend([m EXCEPT !.updateTimeout = TRUE])
                      ELSE NoSend(m)

update(q, properties) ==
    IF q.disposed THEN NoSend(q)
    ELSE LET m == [q EXCEPT !.pendingUpdate = MergePending(@, properties)]
         IN IF ~m.visible THEN NoSend(m)
            ELSE IF "visible" \in DOMAIN m.pendingUpdate
                 THEN dispatchUpdate([m EXCEPT !.updateTimeout = FALSE])
                 ELSE IF ~m.updateTimeout
                      THEN NoSend([m EXCEPT !.updateTimeout = TRUE])
                      ELSE NoSend(m)

\* Field initialisers of ExtHostQuickInput (lines 212-229).
NewQuickInput(id) ==
    [id |-> id, visible |-> FALSE, enabled |-> TRUE, busy |-> FALSE,
     ignoreFocusOut |-> TRUE, value |-> "", placeholder |-> Undef,
     buttons |-> <<>>, handlesToButtons |-> <<>>, updateTimeout |-> FALSE,
     pendingUpdate |-> [id |-> id], disposed |-> FALSE]

\* new ExtHostQuickPick(...)
NewQuickPick(id) ==
    update(NewQuickInput(id) @@
             [class |-> "ExtHostQuickPick", items |-> <<>>, handlesToItems |-> <<>>,
              canSelectMany |-> FALSE, matchOnDescription |-> TRUE,
              matchOnDetail |-> TRUE, activeItems |-> <<>>, selectedItems |-> <<>>],
           [type |-> "quickPick"]).q

\* new ExtHostInputBox(...)
NewInputBox(id) ==
    update(NewQuickInput(id) @@
             [class |-> "ExtHostInputBox", password |-> Undef, prompt |-> Undef,
              validationMessage |-> Undef],
           [type |-> "inputBox"]).q

\* The setters of the form  this._x = x; this.update({ x });
SimpleKeys(q) ==
    {"enabled", "busy", "ignoreFocusOut", "value", "placeholder"} \cup
    (IF q.class = "ExtHostQuickPick"
     THEN {"canSelectMany", "matchOnDescription", "matchOnDetail"}
     ELSE {"password", "prompt", "validationMessage"})

setSimple(q, key, value) == update([q EXCEPT ![key] = value], key :> value)

\* set buttons(buttons)
setButtons(q, buttons) ==
    update([q EXCEPT !.buttons = buttons,
                     !.handlesToButtons = MapSetAll(MapClear(@), buttons)],
           [buttons |-> TransferButtons(buttons)])

\* set items(items)
setItems(q, items) ==
    update([q EXCEPT !.items = items,
                     !.handlesToItems = MapSetAll(MapClear(@), items)],
           [items |-> TransferItems(items)])

show(q) == update([q EXCEPT !.visible = TRUE], [visible |-> TRUE])

hide(q) == update([q EXCEPT !.visible = FALSE], [visible |-> FALSE])

\* A call of emitter.fire(arg) on the emitter of session object o; the
\* argument is kept under the emitter's name.
Fire(emitter, o, arg) == [emitter |-> emitter, o |-> o, arg |-> emitter :> arg]

\* as _fireDidHide, without the fire
fireDidHide_Silent(o) == <<>>

\* _fireDidHide()
fireDidHide(o) == <<Fire("onDidHide", o, Undef)>>

\* if (this._disposed) return;   (lines 341-343)
AlreadyDisposed_Never(q) == FALSE

AlreadyDisposed(q) == q.disposed

\* The _onDidDispose callback the registry passes at construction (lines 155,
\* 161): () => this._sessions.delete(session._id); the ids it deletes.
OnDidDispose_Keep(q) == {}

OnDidDispose(q) == {q.id}

\* public dispose().  `reenter` says whether a listener of onDidHide calls
\* dispose() again while the first call is still running.

RECURSIVE dispose(_, _, _)
dispose(q, o, reenter) ==
    IF AlreadyDisposed(q)
    THEN [q |-> q, sent |-> <<>>, fired |-> <<>>, deleted |-> {}]
    ELSE LET marked == [q EXCEPT !.disposed = TRUE]
             inner == IF reenter THEN dispose(marked, o, FALSE)
                      ELSE [q |-> marked, sent |-> <<>>, fired |-> <<>>, deleted |-> {}]
         IN [q |-> [inner.q EXCEPT !.updateTimeout = FALSE],
             fired |-> fireDidHide(o) \o inner.fired,
             deleted |-> inner.deleted \cup OnDidDispose(q),
             sent |-> inner.sent \o <<[call |-> "$dispose", arg |-> q.id]>>]

\* ---- inbound handlers of the session (lines 322-338, 500-510) -----------

\* _fireDidChangeValue(value)
fireDidChangeValue(q, o, value) ==
    [q |-> [q EXCEPT !.value = value],
     fired |-> <<Fire("onDidChangeValue", o, value)>>]

\* _fireDidAccept()
fireDidAccept(q, o) == [q |-> q, fired |-> <<Fire("onDidAccept", o, Undef)>>]

\* _fireDidTriggerButton(handle)
fireDidTriggerButton(q, o, handle) ==
    [q |-> q,
     fired |-> <<Fire("onDidTriggerButton", o, MapGet(q.handlesToButtons, handle))>>]

\* _fireDidChangeActive(handles)
fireDidChangeActive(q, o, handles) ==
    LET items == MapHandles(handles, q.handlesToItems)
    IN [q |-> [q EXCEPT !.activeItems = items],
        fired |-> <<Fire("onDidChangeActive", o, items)>>]

\* _fireDidChangeSelection(handles)
fireDidChangeSelection(q, o, handles) ==
    LET items == MapHandles(handles, q.handlesToItems)
    IN [q |-> [q EXCEPT !.selectedItems = items],
        fired |-> <<Fire("onDidChangeSelection", o, items)>>]

\* ---- the renderer's view and the bookkeeping of the claims ---------------

\* What the renderer holds after receiving the calls `sent`: a createOrUpdate
\* is a sparse patch, and the items / buttons lists carry the handles.
RECURSIVE Receive(_, _)
Receive(r, sent) ==
    IF sent = <<>> THEN r
    ELSE LET m == Head(sent)
             r1 == IF m.call = "$createOrUpdate"
                   THEN [r EXCEPT ![m.arg.id] =
                           [items |-> IF "items" \in DOMAIN m.arg
                                      THEN m.arg.items ELSE @.items,
                            buttons |-> IF "buttons" \in DOMAIN m.arg
                                        THEN m.arg.buttons ELSE @.buttons]]
                   ELSE r
         IN Receive(r1, Tail(sent))

\* A batch is "open" from the first setter call made on a shown, undisposed
\* session with an empty buffer and no flush due, through the setter calls
\* that follow it; the timer callback turns an open batch into "flushed";
\* show(), hide(), dispose() end it.  writes: key -> the value last assigned,
\* calls: the number of setter calls.
NoBatch == [state |-> "none", writes |-> <<>>, calls |-> 0]

\* The batch after the setter of `key` was called with `value` on the
\* session in state q.
BatchAfterSet(b, q, key, value) ==
    IF b.state = "open"
    THEN [state |-> "open", writes |-> (key :> value) @@ b.writes, calls |-> b.calls + 1]
    ELSE IF /\ q.visible
            /\ ~q.disposed
            /\ ~q.updateTimeout
            /\ DOMAIN q.pendingUpdate = {"id"}
         THEN [state |-> "open", writes |-> key :> value, calls |-> 1]
         ELSE NoBatch

BatchAfterTick(b) ==
    IF b.state = "open" THEN [b EXCEPT !.state = "flushed"] ELSE NoBatch

Op(op, o, reenter) == [op |-> op, o |-> o, reenter |-> reenter]

\* ---- inputs the exploration draws ----------------------------------------

SimpleInputs == {<<"placeholder", "p">>, <<"placeholder", Undef>>}
ButtonInputs == {<<"b1", "b3">>, <<"b2">>}
ItemInputs == {<<"itemA", "itemB">>, <<"itemC">>}
ValueInputs == {"v"}
HandleInputs == {0, 1}
HandleListInputs == {<<0>>, <<1, 0>>}
SelectionInputs == {<<1, 0>>}

\* ---- initial state --------------------------------------------------------

Init ==
    /\ nextId = 1
    /\ obj = <<>>
    /\ sessions = <<>>
    /\ out = <<>>
    /\ fired = <<>>
    /\ remote = [id \in SessionIds |-> [items |-> <<>>, buttons |-> <<>>]]
    /\ batch = [o \in Objs |-> NoBatch]
    /\ lastOp = Op("init", 0, FALSE)
    /\ steps = 0
    /\ onDidSelectItem = 0
    /\ picks = <<>>
    /\ validateInput = 0
    /\ inputs = <<>>

\* ---- API calls ------------------------------------------------------------

Count == steps < MaxSteps /\ steps' = steps + 1

SessionStep == Count /\ UNCHANGED <<pickVars, inputVars>>

\* _id = ExtHostQuickInput._nextId++ (line 212): the counter after the call.
PostIncrement_Same(id) == id

PostIncrement(id) == id + 1

\* createQuickPick / createInputBox (lines 154-164): construct the session,
\* which takes _nextId++ as its id, then register it under session._id.
Create(session, op) ==
    /\ SessionStep
    /\ Len(obj) < MaxSessions
    /\ nextId' = PostIncrement(nextId)
    /\ obj' = Append(obj, session)
    /\ sessions' = (session.id :> Len(obj) + 1) @@ sessions
    /\ out' = <<>>
    /\ fired' = <<>>
    /\ lastOp' = Op(op, Len(obj) + 1, FALSE)
    /\ UNCHANGED <<remote, batch>>

createQuickPick == Create(NewQuickPick(nextId), "createQuickPick")

createInputBox == Create(NewInputBox(nextId), "createInputBox")

\* A call on session object o that returns r = [q, sent].
Call(o, r, op, b) ==
    /\ SessionStep
    /\ obj' = [obj EXCEPT ![o] = r.q]
    /\ out' = r.sent
    /\ fired' = <<>>
    /\ remote' = Receive(remote, r.sent)
    /\ batch' = [batch EXCEPT ![o] = b]
    /\ lastOp' = Op(op, o, FALSE)
    /\ UNCHANGED <<nextId, sessions>>

SetSimple(o, key, value) ==
    /\ o \in DOMAIN obj
    /\ key \in SimpleKeys(obj[o])
    /\ Call(o, setSimple(obj[o], key, value), "set",
            BatchAfterSet(batch[o], obj[o], key, value))

SetButtons(o, buttons) ==
    /\ o \in DOMAIN obj
    /\ Call(o, setButtons(obj[o], buttons), "set",
            BatchAfterSet(batch[o], obj[o], "buttons", buttons))

SetItems(o, items) ==
    /\ o \in DOMAIN obj
    /\ obj[o].class = "ExtHostQuickPick"
    /\ Call(o, setItems(obj[o], items), "set",
            BatchAfterSet(batch[o], obj[o], "items", items))

Show(o) ==
    /\ o \in DOMAIN obj
    /\ Call(o, show(obj[o]), "show", NoBatch)

Hide(o) ==
    /\ o \in DOMAIN obj
    /\ Call(o, hide(obj[o]), "hide", NoBatch)

Dispose(o, reenter) ==
    /\ o \in DOMAIN obj
    /\ reenter => ~obj[o].disposed   \* a listener runs only when the hide fires
    /\ SessionStep
    /\ LET r == dispose(obj[o], o, reenter)
       IN /\ obj' = [obj EXCEPT ![o] = r.q]
          /\ sessions' = [id \in DOMAIN sessions \ r.deleted |-> sessions[id]]
          /\ out' = r.sent
          /\ fired' = r.fired
          /\ remote' = Receive(remote, r.sent)
    /\ batch' = [batch EXCEPT ![o] = NoBatch]
    /\ lastOp' = Op("dispose", o, reenter)
    /\ UNCHANGED nextId

\* The setTimeout callback of update() (lines 376-379) runs.
Tick(o) ==
    /\ o \in DOMAIN obj
    /\ obj[o].updateTimeout
    /\ LET r == dispatchUpdate([obj[o] EXCEPT !.updateTimeout = FALSE])
       IN /\ obj' = [obj EXCEPT ![o] = r.q]
          /\ out' = r.sent
          /\ remote' = Receive(remote, r.sent)
    /\ fired' = <<>>
    /\ batch' = [batch EXCEPT ![o] = BatchAfterTick(@)]
    /\ lastOp' = Op("tick", o, FALSE)
    /\ UNCHANGED <<nextId, sessions, steps>>
    /\ UNCHANGED <<pickVars, inputVars>>

\* ---- inbound protocol events (lines 166-206) ------------------------------

\* An event for sessionId that is handed to the session when `accepts` holds
\* of it, where r = [q, fired] is what the session's handler does.
Inbound(sessionId, op, accepts, r) ==
    /\ SessionStep
    /\ sessionId <= nextId   \* an id issued so far, or the next one
    /\ IF sessionId \in DOMAIN sessions /\ accepts
       THEN /\ obj' = [obj EXCEPT ![sessions[sessionId]] = r.q]
            /\ fired' = r.fired
       ELSE /\ obj' = obj
            /\ fired' = <<>>
    /\ out' = <<>>
    /\ lastOp' = Op(op, sessionId, FALSE)
    /\ UNCHANGED <<nextId, sessions, remote, batch>>

Session(sessionId) == obj[sessions[sessionId]]

IsQuickPick(sessionId) ==
    sessionId \in DOMAIN sessions /\ Session(sessionId).class = "ExtHostQuickPick"

OnDidChangeValue(sessionId, value) ==
    Inbound(sessionId, "$onDidChangeValue", TRUE,
            fireDidChangeValue(Session(sessionId), sessions[sessionId], value))

OnDidAccept(sessionId) ==
    Inbound(sessionId, "$onDidAccept", TRUE,
            fireDidAccept(Session(sessionId), sessions[sessionId]))

OnDidChangeActive(sessionId, handles) ==
    Inbound(sessionId, "$onDidChangeActive", IsQuickPick(sessionId),
            fireDidChangeActive(Session(sessionId), sessions[sessionId], handles))

OnDidChangeSelection(sessionId, handles) ==
    Inbound(sessionId, "$onDidChangeSelection", IsQuickPick(sessionId),
            fireDidChangeSelection(Session(sessionId), sessions[sessionId], handles))

OnDidTriggerButton(sessionId, handle) ==
    Inbound(sessionId, "$onDidTriggerButton", TRUE,
            fireDidTriggerButton(Session(sessionId), sessions[sessionId], handle))

OnDidHide(sessionId) ==
    Inbound(sessionId, "$onDidHide", TRUE,
            [q |-> Session(sessionId), fired |-> fireDidHide(sessions[sessionId])])

\* ---- specification --------------------------------------------------------

Next ==
    \/ createQuickPick
    \/ createInputBox
    \/ \E o \in Objs, kv \in SimpleInputs : SetSimple(o, kv[1], kv[2])
    \/ \E o \in Objs, buttons \in ButtonInputs : SetButtons(o, buttons)
    \/ \E o \in Objs, items \in ItemInputs : SetItems(o, items)
    \/ \E o \in Objs : Show(o)
    \/ \E o \in Objs : Hide(o)
    \/ \E o \in Objs, reenter \in BOOLEAN : Dispose(o, reenter)
    \/ \E o \in Objs : Tick(o)
    \/ \E id \in SessionIds, value \in ValueInputs : OnDidChangeValue(id, value)
    \/ \E id \in SessionIds : OnDidAccept(id)
    \/ \E id \in SessionIds, handles \in HandleListInputs : OnDidChangeActive(id, handles)
    \/ \E id \in SessionIds, handles \in SelectionInputs : OnDidChangeSelection(id, handles)
    \/ \E id \in SessionIds, handle \in HandleInputs : OnDidTriggerButton(id, handle)
    \/ \E id \in SessionIds : OnDidHide(id)

Spec == Init /\ [][Next]_vars

\* The calls of the extension and the scheduler, without the renderer's
\* events: the steps that write the buffer, schedule, cancel and run a flush.
NextLive ==
    \/ createQuickPick
    \/ createInputBox
    \/ \E o \in Objs, kv \in SimpleInputs : SetSimple(o, kv[1], kv[2])
    \/ \E o \in Objs, buttons \in ButtonInputs : SetButtons(o, buttons)
    \/ \E o \in Objs, items \in ItemInputs : SetItems(o, items)
    \/ \E o \in Objs : Show(o)
    \/ \E o \in Objs : Hide(o)
    \/ \E o \in Objs, reenter \in BOOLEAN : Dispose(o, reenter)
    \/ \E o \in Objs : Tick(o)

\* The scheduler runs a callback that setTimeout(..., 0) has scheduled, unless
\* clearTimeout cancels it first.
SpecLive == Init /\ [][NextLive]_vars /\ \A o \in Objs : WF_vars(Tick(o))

\* ---- one-shot picker: showQuickPick (lines 41-120) ------------------------

\* An item of showQuickPick is a plain string or a QuickPickItem object;
\* typeof item === 'string'
IsString(item) == item \notin DOMAIN ItemObjects

\* items[handle], undefined when out of range
ItemAt(items, handle) ==
    IF handle + 1 \in DOMAIN items THEN items[handle + 1] ELSE Undef

\* The value a one-shot operation yields: one item (or undefined), or an
\* array of items.
One(item) == [one |-> item]
Many(items) == [many |-> items]

\* What the renderer resolves the $show promise with: a handle, an array of
\* handles, or neither (the pick was cancelled there).
Handle(handle) == [number |-> handle]
Handles(handles) == [array |-> handles]
NoHandle == [none |-> TRUE]

\* pickItems, built by the loop of lines 63-87.
PickItems(items) ==
    [n \in DOMAIN items |->
        IF IsString(items[n])
        THEN [label |-> items[n], description |-> Undef, handle |-> n - 1,
              detail |-> Undef, picked |-> Undef]
        ELSE [label |-> ItemObjects[items[n]].label,
              description |-> ItemObjects[items[n]].description,
              handle |-> n - 1,
              detail |-> ItemObjects[items[n]].detail,
              picked |-> ItemObjects[items[n]].picked]]

\* quickPickWidget.then(handle => ...), lines 99-106.
PickResult_Truthy(items, handle) ==
    IF "number" \in DOMAIN handle /\ handle.number # 0
    THEN One(ItemAt(items, handle.number))
    ELSE IF "array" \in DOMAIN handle
         THEN Many([n \in DOMAIN handle.array |-> ItemAt(items, handle.array[n])])
         ELSE One(Undef)

\* as PickResult, without the final `return undefined` for other values
PickResult_Unchecked(items, handle) ==
    IF "array" \in DOMAIN handle
    THEN Many([n \in DOMAIN handle.array |-> ItemAt(items, handle.array[n])])
    ELSE One(ItemAt(items, IF "number" \in DOMAIN handle THEN handle.number ELSE 0))

PickResult(items, handle) ==
    IF "number" \in DOMAIN handle THEN One(ItemAt(items, handle.number))
    ELSE IF "array" \in DOMAIN handle
         THEN Many([n \in DOMAIN handle.array |-> ItemAt(items, handle.array[n])])
         ELSE One(Undef)

Pending == [state |-> "pending"]
Resolved(value) == [state |-> "resolved", value |-> value]
Rejected(err) == [state |-> "rejected", value |-> [error |-> err]]

\* as Settle, but a later resolution replaces the earlier one
Settle_Overwrite(promise, value) == Resolved(value)

\* A promise settles once: a later resolution leaves it as it is.
Settle(promise, value) == IF promise.state = "pending" THEN Resolved(value) ELSE promise
Fail(promise, err) == IF promise.state = "pending" THEN Rejected(err) ELSE promise

\* The state of one showQuickPick invocation: the items the source yields and
\* whether it has yielded them (itemsPromise), whether options.onDidSelectItem
\* is a function, the promise $show returned (quickPickWidget), the key
\* TPromise.any completed with ("" while it has not), whether the
\* cancellation token has fired, and the promise the call returned.
NewPick(items, lazy, preview) ==
    [items |-> items, itemsResolved |-> ~lazy, preview |-> preview,
     widget |-> Pending, key |-> "", cancelled |-> FALSE, result |-> Pending]

\* The success callback of itemsPromise.then (lines 61-106) up to the point
\* where it waits for quickPickWidget: r = [pick, onDidSelectItem, sent].
PushItems(pick, k, handler) ==
    [pick |-> [pick EXCEPT !.key = "1"],
     onDidSelectItem |-> IF pick.preview THEN k ELSE handler,
     sent |-> <<[call |-> "$setItems", arg |-> PickItems(pick.items)]>>]

ItemListInputs == {<<"x", "itemA", "y">>, <<"itemB">>}
ResolveInputs == {Handle(0), Handles(<<1, 0>>), NoHandle}
ErrorInputs == {"E"}

PickStep == Count /\ UNCHANGED <<sessionVars, inputVars>>

\* showQuickPick(itemsOrItemsPromise, options, token)
ShowQuickPick(items, lazy, preview) ==
    /\ PickStep
    /\ Len(picks) + Len(inputs) < MaxPicks
    /\ LET k == Len(picks) + 1
           begin == [call |-> "$show", arg |-> k]
           pick == NewPick(items, lazy, preview)
           r == PushItems(pick, k, 0)
       IN /\ picks' = Append(picks, IF lazy THEN pick ELSE r.pick)
          /\ onDidSelectItem' = IF lazy THEN 0 ELSE r.onDidSelectItem
          /\ out' = IF lazy THEN <<begin>> ELSE <<begin>> \o r.sent
          /\ lastOp' = Op("showQuickPick", k, FALSE)
    /\ fired' = <<>>

\* The items source of invocation k yields its list.
ItemsResolve(k) ==
    /\ PickStep
    /\ k \in DOMAIN picks
    /\ ~picks[k].itemsResolved
    /\ LET pick == [picks[k] EXCEPT !.itemsResolved = TRUE]
           r == PushItems(pick, k, onDidSelectItem)
           runs == pick.key = "" /\ ~pick.cancelled
       IN /\ picks' = [picks EXCEPT ![k] = IF runs THEN r.pick ELSE pick]
          /\ onDidSelectItem' = IF runs THEN r.onDidSelectItem ELSE onDidSelectItem
          /\ out' = IF runs THEN r.sent ELSE <<>>
    /\ fired' = <<>>
    /\ lastOp' = Op("itemsResolve", k, FALSE)

\* What TPromise.any (line 56) fails with when its member number key fails:
\* the object {key, value: that member}, which is not the member's error.
AnyError(key) == IF key = "1" THEN "{key: 1, value: itemsPromise}"
                 ELSE "{key: 0, value: quickPickWidget}"

\* The items source of invocation k fails with err.  While quickPickWidget is
\* pending, TPromise.any fails, so the callback of line 56 never runs: nothing
\* is attached to itemsPromise, the error callback of lines 107-111 is never
\* reached, no $setError is sent, and the returned promise fails with the
\* error of TPromise.any.  When quickPickWidget has completed first, the
\* callback of line 56 has returned undefined at line 58.
ItemsReject(k, err) ==
    /\ PickStep
    /\ k \in DOMAIN picks
    /\ ~picks[k].itemsResolved
    /\ LET pick == [picks[k] EXCEPT !.itemsResolved = TRUE]
           fails == pick.key = "" /\ ~pick.cancelled
       IN picks' = [picks EXCEPT ![k] =
             IF fails
             THEN [pick EXCEPT !.key = "1", !.result = Fail(@, AnyError("1"))]
             ELSE pick]
    /\ out' = <<>>
    /\ fired' = <<>>
    /\ lastOp' = Op("itemsReject", k, FALSE)
    /\ UNCHANGED onDidSelectItem

\* The renderer resolves the promise $show returned to invocation k.
RemoteResolve(k, handle) ==
    /\ PickStep
    /\ k \in DOMAIN picks
    /\ picks[k].widget.state = "pending"
    /\ LET pick == [picks[k] EXCEPT !.widget = Resolved(handle)]
       IN picks' = [picks EXCEPT ![k] =
             IF pick.cancelled THEN pick
             ELSE IF pick.key = ""
                  THEN [pick EXCEPT !.key = "0", !.result = Settle(@, One(Undef))]
                  ELSE [pick EXCEPT !.result = Settle(@, PickResult(pick.items, handle))]]
    /\ out' = <<>>
    /\ fired' = <<>>
    /\ lastOp' = Op("remoteResolve", k, FALSE)
    /\ UNCHANGED onDidSelectItem

\* The cancellation token of invocation k fires.
Cancel(k) ==
    /\ PickStep
    /\ k \in DOMAIN picks
    /\ ~picks[k].cancelled
    /\ picks' = [picks EXCEPT ![k] =
                    [@ EXCEPT !.cancelled = TRUE, !.result = Settle(@, One(Undef))]]
    /\ out' = <<>>
    /\ fired' = <<>>
    /\ lastOp' = Op("cancel", k, FALSE)
    /\ UNCHANGED onDidSelectItem

\* $onItemSelected(handle)
OnItemSelected(handle) ==
    /\ PickStep
    /\ fired' = IF onDidSelectItem # 0
                THEN <<Fire("options.onDidSelectItem", onDidSelectItem,
                            ItemAt(picks[onDidSelectItem].items, handle))>>
                ELSE <<>>
    /\ out' = <<>>
    /\ lastOp' = Op("$onItemSelected", handle, FALSE)
    /\ UNCHANGED pickVars

\* ---- text prompt: showInput (lines 124-138) -------------------------------

\* The state of one showInput invocation: the promise $input returned,
\* whether the cancellation token has fired, and the promise the call returned.
NewInput == [widget |-> Pending, cancelled |-> FALSE, result |-> Pending]

InputResolveInputs == {"text", Undef}

InputStep == Count /\ UNCHANGED <<sessionVars, pickVars>>

\* showInput(options, token); validate: options.validateInput is a function
ShowInput(validate) ==
    /\ InputStep
    /\ Len(picks) + Len(inputs) < MaxPicks
    /\ LET k == Len(inputs) + 1
       IN /\ validateInput' = IF validate THEN k ELSE 0
          /\ inputs' = Append(inputs, NewInput)
          /\ out' = <<[call |-> "$input", arg |-> [k |-> k, validate |-> validate]]>>
          /\ lastOp' = Op("showInput", k, FALSE)
    /\ fired' = <<>>

\* The renderer resolves the promise $input returned to invocation k.
InputResolve(k, value) ==
    /\ InputStep
    /\ k \in DOMAIN inputs
    /\ inputs[k].widget.state = "pending"
    /\ LET input == [inputs[k] EXCEPT !.widget = Resolved(value)]
       IN inputs' = [inputs EXCEPT ![k] =
             IF input.cancelled THEN input
             ELSE [input EXCEPT !.result = Settle(@, value)]]
    /\ out' = <<>>
    /\ fired' = <<>>
    /\ lastOp' = Op("inputResolve", k, FALSE)
    /\ UNCHANGED validateInput

\* The cancellation token of showInput invocation k fires.
CancelInput(k) ==
    /\ InputStep
    /\ k \in DOMAIN inputs
    /\ ~inputs[k].cancelled
    /\ inputs' = [inputs EXCEPT ![k] =
                     [@ EXCEPT !.cancelled = TRUE, !.result = Settle(@, Undef)]]
    /\ out' = <<>>
    /\ fired' = <<>>
    /\ lastOp' = Op("cancelInput", k, FALSE)
    /\ UNCHANGED validateInput

\* $validateInput(input)
OnValidateInput(input) ==
    /\ InputStep
    /\ fired' = IF validateInput # 0
                THEN <<Fire("options.validateInput", validateInput, input)>>
                ELSE <<>>
    /\ out' = <<>>
    /\ lastOp' = Op("$validateInput", 0, FALSE)
    /\ UNCHANGED inputVars

NextPick ==
    \/ \E items \in ItemListInputs, lazy \in BOOLEAN, preview \in BOOLEAN :
          ShowQuickPick(items, lazy, preview)
    \/ \E k \in DOMAIN picks : ItemsResolve(k)
    \/ \E k \in DOMAIN picks, err \in ErrorInputs : ItemsReject(k, err)
    \/ \E k \in DOMAIN picks, handle \in ResolveInputs : RemoteResolve(k, handle)
    \/ \E k \in DOMAIN picks : Cancel(k)
    \/ \E handle \in HandleInputs : OnItemSelected(handle)
    \/ \E validate \in BOOLEAN : ShowInput(validate)
    \/ \E k \in DOMAIN inputs, value \in InputResolveInputs : InputResolve(k, value)
    \/ \E k \in DOMAIN inputs : CancelInput(k)
    \/ \E input \in ValueInputs : OnValidateInput(input)

SpecPick == Init /\ [][NextPick]_vars

\* ---- helpers of the claims ------------------------------------------------

CreateOrUpdate(arg) == [call |-> "$createOrUpdate", arg |-> arg]

IsUpdateOf(m, id) == m.call = "$createOrUpdate" /\ m.arg.id = id

IsDisposeOf(m, id) == m.call = "$dispose" /\ m.arg = id

\* The createOrUpdate calls for session id among `sent`.
UpdatesOf(sent, id) == SelectSeq(sent, LAMBDA m : IsUpdateOf(m, id))

DisposesOf(sent, id) == SelectSeq(sent, LAMBDA m : IsDisposeOf(m, id))

HidesOf(f, o) == SelectSeq(f, LAMBDA e : e.emitter = "onDidHide" /\ e.o = o)

Did(op, o) == lastOp.op = op /\ lastOp.o = o

\* The value a setter's argument has on the wire.
Wire(key, value) ==
    IF key = "buttons" THEN TransferButtons(value)
    ELSE IF key = "items" THEN TransferItems(value)
    ELSE IF IsUndefined(value) THEN Null ELSE value

\* The patch that carries exactly the last value written to each key.
PatchOf(id, writes) ==
    [key \in {"id"} \cup DOMAIN writes |->
        IF key = "id" THEN id ELSE Wire(key, writes[key])]

IndexMap(array) == [i \in {n - 1 : n \in DOMAIN array} |-> array[i + 1]]

\* ---- C1 -------------------------------------------------------------------

\* C1: while a non-disposed session is not visible, no step other than show()
\* sends a createOrUpdate for it, and show() sends exactly one, carrying
\* visible and every key buffered since the previous flush with its value.
C1_NothingSentUntilShow ==
    [][\A o \in DOMAIN obj :
          (~obj[o].visible /\ ~obj[o].disposed) =>
             IF Did("show", o)'
             THEN out' = <<CreateOrUpdate([visible |-> TRUE] @@ obj[o].pendingUpdate)>>
             ELSE UpdatesOf(out', obj[o].id) = <<>>]_vars

\* ---- C2 -------------------------------------------------------------------

\* C2: the setter calls of a batch send nothing and leave a flush scheduled;
\* the timer callback that ends the batch sends exactly one createOrUpdate,
\* holding the session id and, for each key written, the value last written.
C2_BatchIsOneUpdate ==
    \A o \in DOMAIN obj :
       /\ batch[o].state = "open" =>
             /\ obj[o].updateTimeout
             /\ Did("set", o) => out = <<>>
       /\ (batch[o].state = "flushed" /\ Did("tick", o)) =>
             /\ out = <<CreateOrUpdate(PatchOf(obj[o].id, batch[o].writes))>>
             /\ ~obj[o].updateTimeout
             /\ obj[o].pendingUpdate = [id |-> obj[o].id]

\* A flushed batch of three setter calls on two keys, one key written twice.
C2_Witness ==
    \E o \in DOMAIN obj :
       /\ Did("tick", o)
       /\ batch[o].state = "flushed"
       /\ batch[o].calls = 3
       /\ DOMAIN batch[o].writes = {"placeholder", "buttons"}
       /\ Len(out) = 1

\* ---- C3 -------------------------------------------------------------------

\* C3: on a non-disposed session show() sends one createOrUpdate that holds
\* only the id and visible = true, and a hide() that directly follows it
\* sends one that holds only the id and visible = false.
C3_ShowHideSendVisibilityOnly ==
    [][\A o \in DOMAIN obj :
          ~obj[o].disposed =>
             /\ Did("show", o)' =>
                   out' = <<CreateOrUpdate([id |-> obj[o].id, visible |-> TRUE])>>
             /\ (Did("show", o) /\ Did("hide", o)') =>
                   out' = <<CreateOrUpdate([id |-> obj[o].id, visible |-> FALSE])>>]_vars

\* ---- C4 -------------------------------------------------------------------

\* C4: hide() on a shown, non-disposed session sends a createOrUpdate with
\* visible = false and leaves no deferred flush scheduled.
C4_HideFlushesAndCancels ==
    [][\A o \in DOMAIN obj :
          (obj[o].visible /\ ~obj[o].disposed /\ Did("hide", o)') =>
             /\ \E n \in DOMAIN out' :
                   /\ IsUpdateOf(out'[n], obj[o].id)
                   /\ "visible" \in DOMAIN out'[n].arg
                   /\ out'[n].arg.visible = FALSE
             /\ ~obj'[o].updateTimeout]_vars

\* ---- C5 -------------------------------------------------------------------

\* C5: the step that disposes a session sends exactly one $dispose for its id
\* and fires exactly one hide notification, also when a hide listener calls
\* dispose() again; every step on a session already disposed sends no
\* $dispose and fires no hide; no other step sends a $dispose.
C5_DisposeOnce ==
    [][\A o \in DOMAIN obj :
          LET destroys == Len(DisposesOf(out', obj[o].id))
              hides == Len(HidesOf(fired', o))
          IN /\ obj[o].disposed => (obj'[o].disposed /\ destroys = 0 /\ hides = 0)
             /\ (~obj[o].disposed /\ obj'[o].disposed) => (destroys = 1 /\ hides = 1)
             /\ ~obj'[o].disposed => destroys = 0]_vars

\* dispose() was called on a session that was disposed already.
C5_Witness ==
    \E o \in DOMAIN obj :
       /\ Did("dispose", o)
       /\ obj[o].disposed
       /\ out = <<>>
       /\ fired = <<>>

\* ---- C6 -------------------------------------------------------------------

\* C6: a step on a disposed session leaves its pending buffer as it was,
\* schedules no flush and sends nothing that carries its id; the step that
\* disposes it cancels the scheduled flush and sends $dispose last.
C6_NothingAfterDispose ==
    [][\A o \in DOMAIN obj :
          /\ obj[o].disposed =>
                /\ obj'[o].pendingUpdate = obj[o].pendingUpdate
                /\ ~obj'[o].updateTimeout
                /\ UpdatesOf(out', obj[o].id) = <<>>
                /\ DisposesOf(out', obj[o].id) = <<>>
          /\ (~obj[o].disposed /\ obj'[o].disposed) =>
                /\ ~obj'[o].updateTimeout
                /\ out' # <<>>
                /\ IsDisposeOf(out'[Len(out')], obj[o].id)]_vars

\* show() was called on a disposed session: it is flagged visible, and
\* nothing was sent.
C6_Witness ==
    \E o \in DOMAIN obj :
       /\ Did("show", o)
       /\ obj[o].disposed
       /\ obj[o].visible
       /\ out = <<>>

\* ---- C7 -------------------------------------------------------------------

\* The renderer holds handles of an items list that has been replaced by
\* another list since, and the new list has not been sent yet.
Stale(id) ==
    /\ remote[id].items # <<>>
    /\ "items" \in DOMAIN Session(id).pendingUpdate
    /\ remote[id].items # TransferItems(Session(id).items)

\* Every handle is one the renderer was issued.
Issued(id, handles) ==
    \A n \in DOMAIN handles : handles[n] < Len(remote[id].items)

\* C7: a selection-changed or active-items-changed event whose handles were
\* issued for a list replaced since resolves every handle to no item.
C7_StaleHandleResolvesToNoItem ==
    [][\A id \in SessionIds, handles \in HandleListInputs :
          (/\ IsQuickPick(id)
           /\ Stale(id)
           /\ Issued(id, handles)
           /\ \/ Did("$onDidChangeSelection", id)' /\ OnDidChangeSelection(id, handles)
              \/ Did("$onDidChangeActive", id)' /\ OnDidChangeActive(id, handles)) =>
             \A n \in DOMAIN handles : fired'[1].arg[fired'[1].emitter][n] = Undef]_vars

\* ---- C8 -------------------------------------------------------------------

\* C8: the buttons setter stores the sequence it is given; the handle map is
\* always index -> element of the stored sequence; a button-triggered event
\* with a handle below its length fires the notification with that element.
C8_ButtonHandlesFollowSequence ==
    [][/\ \A o \in DOMAIN obj' :
             obj'[o].handlesToButtons = IndexMap(obj'[o].buttons)
       /\ \A o \in DOMAIN obj, buttons \in ButtonInputs :
             (Did("set", o)' /\ SetButtons(o, buttons)) => obj'[o].buttons = buttons
       /\ \A id \in DOMAIN sessions, handle \in HandleInputs :
             (/\ Did("$onDidTriggerButton", id)'
              /\ OnDidTriggerButton(id, handle)
              /\ handle < Len(Session(id).buttons)) =>
                fired' = <<Fire("onDidTriggerButton", sessions[id],
                                Session(id).buttons[handle + 1])>>]_vars

\* Handle 0 arrived while the renderer still held the sequence b1, b3 and
\* the session the sequence b2: the notification carried b2.
C8_Witness ==
    \E id \in DOMAIN sessions :
       /\ Did("$onDidTriggerButton", id)
       /\ remote[id].buttons = TransferButtons(<<"b1", "b3">>)
       /\ Session(id).buttons = <<"b2">>
       /\ fired = <<Fire("onDidTriggerButton", sessions[id], "b2")>>

\* ---- C9 -------------------------------------------------------------------

\* C9: a button-triggered event whose handle is not in the handle map of the
\* session fires no notification.
C9_UnknownButtonHandleIgnored ==
    [][\A id \in DOMAIN sessions, handle \in HandleInputs :
          (/\ Did("$onDidTriggerButton", id)'
           /\ OnDidTriggerButton(id, handle)
           /\ handle \notin DOMAIN Session(id).handlesToButtons) =>
             fired' = <<>>]_vars

\* ---- C10 ------------------------------------------------------------------

LabelOf(item) == IF IsString(item) THEN item ELSE ItemObjects[item].label

\* C10: when the renderer resolves $show after the items were pushed and the
\* operation is still pending, a handle h of the list makes the operation
\* resolve to the item at position h, and an array of handles to the items at
\* those positions, in the order of the handles; every $setItems call gives
\* the entry of the item at position i the handle i and the label of that item.
C10_HandleResolvesToItem ==
    [][/\ \A k \in DOMAIN picks, handle \in ResolveInputs :
             (/\ Did("remoteResolve", k)'
              /\ RemoteResolve(k, handle)
              /\ picks[k].key = "1"
              /\ picks[k].result.state = "pending") =>
                LET items == picks[k].items
                    result == picks'[k].result
                IN /\ result.state = "resolved"
                   /\ "number" \in DOMAIN handle =>
                         /\ "one" \in DOMAIN result.value
                         /\ handle.number < Len(items) =>
                               result.value.one = items[handle.number + 1]
                   /\ "array" \in DOMAIN handle =>
                         /\ "many" \in DOMAIN result.value
                         /\ Len(result.value.many) = Len(handle.array)
                         /\ \A n \in DOMAIN handle.array :
                               handle.array[n] < Len(items) =>
                                  result.value.many[n] = items[handle.array[n] + 1]
       /\ \A n \in DOMAIN out' :
             out'[n].call = "$setItems" =>
                LET items == picks'[lastOp'.o].items
                IN /\ Len(out'[n].arg) = Len(items)
                   /\ \A i \in DOMAIN items :
                         /\ out'[n].arg[i].handle = i - 1
                         /\ out'[n].arg[i].label = LabelOf(items[i])]_vars

\* The items were pushed, then the renderer resolved the $show promise with
\* handle 0, and the operation resolved to the first item.
C10_Witness ==
    \E k \in DOMAIN picks :
       /\ Did("remoteResolve", k)
       /\ picks[k].key = "1"
       /\ ~picks[k].cancelled
       /\ picks[k].widget = Resolved(Handle(0))
       /\ picks[k].items = <<"x", "itemA", "y">>
       /\ picks[k].result = Resolved(One("x"))

\* ---- C11 ------------------------------------------------------------------

\* C11: when the items source of a one-shot picker that was not cancelled
\* fails with error E, that step sends $setError(E) and the operation's result
\* is rejected with exactly E, whether or not the renderer has resolved the
\* $show promise before.
C11_ItemsErrorReportedAndRaised ==
    [][\A k \in DOMAIN picks, err \in ErrorInputs :
          (ItemsReject(k, err) /\ ~picks[k].cancelled) =>
             /\ out' = <<[call |-> "$setError", arg |-> err]>>
             /\ picks'[k].result = Rejected(err)]_vars

\* ---- C12 ------------------------------------------------------------------

\* C12: when the renderer resolves the $show promise of a one-shot picker
\* whose result is still pending with a value that is neither a handle nor an
\* array of handles, the result resolves to undefined and nothing is sent,
\* whether the items have resolved before or not.
C12_CancelSentinelResolvesUndefined ==
    [][\A k \in DOMAIN picks :
          (/\ picks[k].result = Pending
           /\ Did("remoteResolve", k)'
           /\ picks'[k].widget = Resolved(NoHandle)) =>
             /\ picks'[k].result = Resolved(One(Undef))
             /\ out' = <<>>]_vars

\* The items were pushed first, then the renderer resolved with the sentinel.
C12_Witness ==
    \E k \in DOMAIN picks :
        /\ Did("remoteResolve", k)
        /\ picks[k].key = "1"
        /\ ~picks[k].cancelled
        /\ picks[k].widget = Resolved(NoHandle)
        /\ picks[k].result = Resolved(One(Undef))

\* ---- C13 ------------------------------------------------------------------

\* C13: when the cancellation token of a showQuickPick or showInput call
\* fires while its result is pending, the result resolves to undefined; and a
\* result that has settled, by the renderer's answer or by cancellation, is
\* never changed by what happens later.
C13_CancelResolvesUndefinedFirstWins ==
    [][/\ \A k \in DOMAIN picks :
             /\ (picks[k].result = Pending /\ Did("cancel", k)') =>
                    picks'[k].result = Resolved(One(Undef))
             /\ picks[k].result # Pending => picks'[k].result = picks[k].result
       /\ \A k \in DOMAIN inputs :
             /\ (inputs[k].result = Pending /\ Did("cancelInput", k)') =>
                    inputs'[k].result = Resolved(Undef)
             /\ inputs[k].result # Pending => inputs'[k].result = inputs[k].result]_vars

\* A showQuickPick call was cancelled with the items pushed, then the renderer
\* answered with handle 0: the result stays undefined.
C13_Witness ==
    \E k \in DOMAIN picks :
        /\ Did("remoteResolve", k)
        /\ picks[k].cancelled
        /\ picks[k].key = "1"
        /\ picks[k].widget = Resolved(Handle(0))
        /\ picks[k].result = Resolved(One(Undef))

\* ---- C14 ------------------------------------------------------------------

\* C14: while the latest showQuickPick call was given a preview callback, has
\* pushed its items and has not settled, every $onItemSelected(handle) invokes
\* that callback, once, with the call's own item at position handle.  (Before
\* the items resolve no closure is installed, line 91, so the events the claim
\* also covers there are dropped as well.)
C14_PreviewCallbackInvoked ==
    [][\A handle \in HandleInputs :
          LET k == Len(picks)
          IN (/\ k > 0
              /\ picks[k].preview
              /\ picks[k].key = "1"
              /\ picks[k].result = Pending
              /\ Did("$onItemSelected", handle)') =>
                 fired' = <<Fire("options.onDidSelectItem", k,
                                 ItemAt(picks[k].items, handle))>>]_vars

\* ---- C20 ------------------------------------------------------------------

\* C20: once showQuickPick has been called again, no $onItemSelected event
\* invokes the preview callback of an earlier call.
C20_EarlierPreviewNeverInvoked ==
    [][\A handle \in HandleInputs :
          Did("$onItemSelected", handle)' =>
             \A n \in DOMAIN fired' : fired'[n].o = Len(picks)]_vars

\* ---- C15 ------------------------------------------------------------------

\* The registry holds exactly the sessions constructed and not disposed, each
\* under its own id, and no two sessions have the same id.
RegistryIsLiveSessions ==
    /\ \A id \in DOMAIN sessions : obj[sessions[id]].id = id
    /\ DOMAIN sessions = {obj[o].id : o \in {n \in DOMAIN obj : ~obj[n].disposed}}
    /\ \A o1, o2 \in DOMAIN obj : obj[o1].id = obj[o2].id => o1 = o2

\* C15: in every state the registry holds exactly the sessions created and not
\* yet disposed, each under its own unique id, and a step removes an entry
\* only if it is dispose() of the session registered there.
C15_RegistryIsLiveSessions ==
    [][/\ RegistryIsLiveSessions'
       /\ \A id \in DOMAIN sessions :
             id \notin DOMAIN sessions' =>
                (lastOp'.op = "dispose" /\ lastOp'.o = sessions[id])]_vars

\* Two sessions were created, the first was disposed, and the second, hidden
\* again after a show, is still registered.
C15_Witness ==
    /\ Len(obj) = 2
    /\ obj[1].disposed
    /\ DOMAIN sessions = {obj[2].id}
    /\ Did("hide", 2)

\* ---- C16 ------------------------------------------------------------------

\* C16: $onDidHide for a registered session fires that session's onDidHide
\* once and changes nothing else: no message is sent, the registry and every
\* session object (disposed flag, pending buffer, scheduled flush) stay as
\* they are; and show() on a session that is not disposed sends one
\* createOrUpdate with visible = true.
C16_InboundHideOnlyNotifies ==
    [][/\ \A id \in DOMAIN sessions :
             Did("$onDidHide", id)' =>
                /\ fired' = <<Fire("onDidHide", sessions[id], Undef)>>
                /\ out' = <<>>
                /\ obj' = obj
                /\ sessions' = sessions
       /\ \A o \in DOMAIN obj :
             (Did("show", o)' /\ ~obj[o].disposed) =>
                /\ Len(out') = 1
                /\ IsUpdateOf(out'[1], obj[o].id)
                /\ out'[1].arg.visible = TRUE]_vars

\* The hidden event reached a shown session with a buffered change and a
\* flush scheduled, which are still there.
C16_Witness ==
    \E id \in DOMAIN sessions :
        /\ Did("$onDidHide", id)
        /\ fired = <<Fire("onDidHide", sessions[id], Undef)>>
        /\ Session(id).visible
        /\ Session(id).updateTimeout
        /\ "placeholder" \in DOMAIN Session(id).pendingUpdate

\* ---- C17 ------------------------------------------------------------------

\* What a caller can read back from session q: the getters' fields and the
\* handle maps.
Readable(q) ==
    [key \in DOMAIN q \ {"visible", "updateTimeout", "pendingUpdate", "disposed"} |->
        q[key]]

\* C17: a setter, show() or hide() called on a disposed session leaves what
\* its getters and handle maps return unchanged.
C17_DisposedSessionIsFrozen ==
    [][\A o \in DOMAIN obj :
          (obj[o].disposed /\ (Did("set", o)' \/ Did("show", o)' \/ Did("hide", o)')) =>
             Readable(obj'[o]) = Readable(obj[o])]_vars

\* ---- C18 ------------------------------------------------------------------

FlushKeys == {"placeholder", "items"}

\* A createOrUpdate for session object o that carries key is among `sent`.
SentKey(sent, o, key) ==
    \E n \in DOMAIN sent :
        IsUpdateOf(sent[n], obj[o].id) /\ key \in DOMAIN sent[n].arg

\* While a session is visible and not disposed, a buffer holding more than
\* the id has a flush scheduled.
BufferedMeansScheduled ==
    \A o \in DOMAIN obj :
        (obj[o].visible /\ ~obj[o].disposed /\ DOMAIN obj[o].pendingUpdate # {"id"}) =>
            obj[o].updateTimeout

\* C18: a visible, undisposed session with more than its id buffered has a
\* flush scheduled; and after a setter call on a shown, undisposed session,
\* each buffered key is eventually sent in a createOrUpdate, or the session
\* is disposed, whatever show() and hide() calls come in between.
C18_BufferedIsEventuallySent ==
    /\ []BufferedMeansScheduled
    /\ \A o \in Objs, key \in FlushKeys :
          (/\ o \in DOMAIN obj
           /\ Did("set", o)
           /\ obj[o].visible
           /\ ~obj[o].disposed
           /\ key \in DOMAIN obj[o].pendingUpdate)
          ~> (o \in DOMAIN obj /\ (obj[o].disposed \/ SentKey(out, o, key)))

\* hide() was called with a change buffered and the flush still to run.
C18_Witness ==
    \E o \in DOMAIN obj :
        /\ Did("hide", o)
        /\ ~obj[o].disposed
        /\ obj[o].updateTimeout
        /\ "placeholder" \in DOMAIN obj[o].pendingUpdate

\* ---- C19 ------------------------------------------------------------------

InboundOps ==
    {"$onDidChangeValue", "$onDidAccept", "$onDidChangeActive",
     "$onDidChangeSelection", "$onDidTriggerButton", "$onDidHide"}

PickerOnlyOps == {"$onDidChangeActive", "$onDidChangeSelection"}

\* The session objects constructed, not disposed, whose id is id.
LiveWithId(id) == {o \in DOMAIN obj : obj[o].id = id /\ ~obj[o].disposed}

\* C19: an inbound event for session id s sends nothing, leaves the registry
\* alone, and fires on and changes only the live session whose id is s; when
\* there is none (never created, or disposed), or when the event is for
\* pickers only and that session is an input box, it fires nothing and
\* changes nothing.
C19_InboundReachesOnlyItsSession ==
    [][\A id \in SessionIds :
          (lastOp'.op \in InboundOps /\ lastOp'.o = id) =>
             /\ out' = <<>>
             /\ sessions' = sessions
             /\ \A o \in DOMAIN obj \ LiveWithId(id) : obj'[o] = obj[o]
             /\ \A n \in DOMAIN fired' : fired'[n].o \in LiveWithId(id)
             /\ (\/ LiveWithId(id) = {}
                 \/ /\ lastOp'.op \in PickerOnlyOps
                    /\ \A o \in LiveWithId(id) : obj[o].class = "ExtHostInputBox") =>
                   (fired' = <<>> /\ obj' = obj)]_vars

\* With two sessions registered, a value-changed event for the second changed
\* the second only.
C19_Witness ==
    /\ DOMAIN sessions = {1, 2}
    /\ Did("$onDidChangeValue", 2)
    /\ Session(2).value = "v"
    /\ Session(1).value = ""
    /\ fired = <<Fire("onDidChangeValue", sessions[2], "v")>>

====
